---- MODULE Spec2Model ----
(***************************************************************************)
(* A model of synthaser's rule-graph classifier (classify.py) and of its   *)
(* domain-hit filtering and relabelling (models.py).                       *)
(*                                                                         *)
(* A Domain object is a record [type, domain, start, end].  A Python list  *)
(* of Domain objects is a sequence of such records; an object's identity   *)
(* is its position in the list.  Python's 0-based indices are kept in the  *)
(* loop counters, and the list element at Python index i is seq[i + 1].    *)
(***************************************************************************)
EXTENDS Integers, Sequences, FiniteSets, TLC

VARIABLES graph, rules, domains, type, ret

vars == <<graph, rules, domains, type, ret>>

(***************************************************************************)
(* Bounds of the model.                                                    *)
(***************************************************************************)
\* longest hit list of the interval-filtering specification
MaxLen == 3
\* largest coordinate of a hit of the interval-filtering specification
MaxCoord == 4
\* most entries (leaves and subtrees, at all depths) of a generated rule graph
MaxNodes == 3
\* most required types of a generated rule
MaxReq == 2
\* longest hit list a generated rule is evaluated against
MaxHits == 2
\* largest placeholder index of a rule of the evaluation specification
MaxIndex == 10

(***************************************************************************)
(* Generic list helpers.                                                   *)
(***************************************************************************)
Domain(t, d, s, e) == [type |-> t, domain |-> d, start |-> s, end |-> e]

\* sequences over S of length 0..n
SeqsUpTo(S, n) == UNION {[1..k -> S] : k \in 0..n}

Max2(x, y) == IF x >= y THEN x ELSE y

Min2(x, y) == IF x <= y THEN x ELSE y

\* Python str ordering of the domain types used here
TypeOrder == <<"ACP", "AT", "C", "E", "KS", "R", "T", "TR">>

TypeRank(t) == CHOOSE k \in 1..Len(TypeOrder) : TypeOrder[k] = t

KeyStart(d) == d.start

KeyType(d) == TypeRank(d.type)

KeyLength(d) == d.end - d.start

\* the sort key selected by name: attrgetter("start"), attrgetter("type"),
\* lambda x: x.end - x.start
KeyOf(key, d) ==
    CASE key = "start" -> KeyStart(d)
      [] key = "type" -> KeyType(d)
      [] key = "length" -> KeyLength(d)

\* one step of a stable sort: x goes after every element whose key is <= its own
RECURSIVE InsertByKey(_, _, _)
InsertByKey(key, s, x) ==
    IF s = <<>> THEN <<x>>
    ELSE IF KeyOf(key, x) < KeyOf(key, Head(s)) THEN <<x>> \o s
    ELSE <<Head(s)>> \o InsertByKey(key, Tail(s), x)

\* list.sort(key=...) / sorted(..., key=...): stable, ascending
RECURSIVE SortedByKey(_, _)
SortedByKey(key, s) ==
    IF s = <<>> THEN <<>>
    ELSE InsertByKey(key, SortedByKey(key, SubSeq(s, 1, Len(s) - 1)), s[Len(s)])

\* max(group, key=...): the first element with the largest key
RECURSIVE MaxByKey(_, _)
MaxByKey(key, s) ==
    IF Len(s) = 1 THEN s[1]
    ELSE LET best == MaxByKey(key, SubSeq(s, 1, Len(s) - 1))
         IN IF KeyOf(key, s[Len(s)]) > KeyOf(key, best) THEN s[Len(s)] ELSE best

\* concatenation of a sequence of sequences
RECURSIVE Flatten(_)
Flatten(ss) == IF ss = <<>> THEN <<>> ELSE Head(ss) \o Flatten(Tail(ss))

(***************************************************************************)
(* models.py: hits_overlap.  The threshold is the rational th[1] / th[2];  *)
(* overlap >= threshold * length is compared as overlap * th[2] >=         *)
(* th[1] * length, which is what the float comparison decides for the      *)
(* small integer coordinates and the thresholds used here.                 *)
(***************************************************************************)
DefaultThreshold == <<9, 10>>

hits_overlap(a, b, th) ==
    LET start == Max2(a.start, b.start)
        end == Min2(a.end, b.end)
        overlap == Max2(0, end - start)
    IN \/ overlap * th[2] >= th[1] * (a.end - a.start)
       \/ overlap * th[2] >= th[1] * (b.end - b.start)

(***************************************************************************)
(* models.py: group_overlapping_hits.  The generator's output is the       *)
(* sequence of the groups it yields, in yield order.  ForLoop is the       *)
(* inner `for j in range(i + 1, total)`, WhileLoop the outer               *)
(* `while i < total`; both take and return the yields so far.              *)
(***************************************************************************)
\* ForLoop without its `if j == total - 1: yield group`
RECURSIVE ForLoopNoEndYield(_, _, _, _, _, _, _)
ForLoopNoEndYield(ds, current, group, j, total, th, out) ==
    IF j > total - 1 THEN [group |-> group, out |-> out]
    ELSE LET future == ds[j + 1]
         IN IF hits_overlap(current, future, th)
            THEN ForLoopNoEndYield(ds, current, Append(group, future), j + 1, total, th, out)
            ELSE [group |-> group, out |-> Append(out, group)]

RECURSIVE ForLoop(_, _, _, _, _, _, _)
ForLoop(ds, current, group, j, total, th, out) ==
    IF j > total - 1 THEN [group |-> group, out |-> out]
    ELSE LET future == ds[j + 1]
         IN IF hits_overlap(current, future, th)
            THEN LET g2 == Append(group, future)
                 IN ForLoop(ds, current, g2, j + 1, total, th,
                            IF j = total - 1 THEN Append(out, g2) ELSE out)
            ELSE [group |-> group, out |-> Append(out, group)]

RECURSIVE WhileLoop(_, _, _, _, _)
WhileLoop(ds, i, total, th, out) ==
    IF ~(i < total) THEN out
    ELSE LET current == ds[i + 1]
             group == <<current>>
         IN IF i = total - 1 THEN Append(out, group)
            ELSE LET r == ForLoop(ds, current, group, i + 1, total, th, out)
                 IN WhileLoop(ds, i + Len(r.group), total, th, r.out)

\* the list after `domains.sort(key=attrgetter("start"))`, and the groups yielded
group_overlapping_hits(ds, th) ==
    LET sorted == SortedByKey("start", ds)
    IN [domains |-> sorted, groups |-> WhileLoop(sorted, 0, Len(sorted), th, <<>>)]

(***************************************************************************)
(* models.py: Synthase.filter_same_type_domains.                           *)
(***************************************************************************)
\* itertools.groupby: maximal runs of consecutive elements with equal key
RECURSIVE GroupByType(_)
GroupByType(s) ==
    IF s = <<>> THEN <<>>
    ELSE LET rest == GroupByType(Tail(s))
         IN IF rest # <<>> /\ Head(rest)[1].type = Head(s).type
            THEN <<<<Head(s)>> \o Head(rest)>> \o Tail(rest)
            ELSE <<<<Head(s)>>>> \o rest

\* max(group, key=lambda x: x.end - x.start) for group in ...
Representatives(groups) == [k \in 1..Len(groups) |-> MaxByKey("length", groups[k])]

RECURSIVE FilterTypeGroups(_)
FilterTypeGroups(tgs) ==
    IF tgs = <<>> THEN <<>>
    ELSE LET type_group == SortedByKey("start", Head(tgs))
         IN Representatives(group_overlapping_hits(type_group, DefaultThreshold).groups)
            \o FilterTypeGroups(Tail(tgs))

filter_same_type_domains(ds) ==
    LET byType == SortedByKey("type", ds)
        filtered == FilterTypeGroups(GroupByType(byType))
    IN SortedByKey("start", filtered)

(***************************************************************************)
(* The interval-filtering specification: a Synthase with some hit list,    *)
(* on which the filters and the clustering generator are called.           *)
(***************************************************************************)
\* hits of the data model (1 <= start <= end): a KS hit at every interval of
\* 1..MaxCoord, and one AT hit that spans them all
FilterHits ==
    {h \in {Domain("KS", "f", s, e) : s \in 1..MaxCoord, e \in 1..MaxCoord} : h.start <= h.end}
    \cup {Domain("AT", "f", 1, MaxCoord)}

Thresholds == {<<1, 2>>, <<9, 10>>, <<1, 1>>}

NoCall == [op |-> "none"]

InitFilter ==
    /\ graph = <<>>
    /\ rules = <<>>
    /\ type = ""
    /\ domains \in SeqsUpTo(FilterHits, MaxLen)
    /\ ret = NoCall

GroupOverlappingHits ==
    \E th \in Thresholds :
        LET r == group_overlapping_hits(domains, th)
        IN /\ domains' = r.domains
           /\ ret' = [op |-> "group_overlapping_hits", before |-> domains,
                      threshold |-> th, groups |-> r.groups]
           /\ UNCHANGED <<graph, rules, type>>

FilterSameTypeDomains ==
    /\ domains' = filter_same_type_domains(domains)
    /\ ret' = [op |-> "filter_same_type_domains", before |-> domains]
    /\ UNCHANGED <<graph, rules, type>>

NextFilter == GroupOverlappingHits \/ FilterSameTypeDomains

SpecFilter == InitFilter /\ [][NextFilter]_vars

(***************************************************************************)
(* models.py: rename_parent_domain.  RenameParentLoop is its               *)
(* `while index < total` loop; it returns the list as the loop leaves it.  *)
(***************************************************************************)
\* domains.pop(index), index 0-based
Pop(ds, index) == SubSeq(ds, 1, index) \o SubSeq(ds, index + 2, Len(ds))

RECURSIVE RenameParentLoop(_, _, _, _, _)
RenameParentLoop(ds, index, total, parent, child) ==
    IF ~(index < total) THEN ds
    ELSE LET one == ds[index]
             two == ds[index + 1]
         IN IF hits_overlap(one, two, DefaultThreshold) /\ one.type = parent /\ two.type = child
            THEN RenameParentLoop(Pop([ds EXCEPT ![index].type = child], index),
                                  index, total - 1, parent, child)
            ELSE RenameParentLoop(ds, index + 1, total, parent, child)

rename_parent_domain(ds, parent, child) == RenameParentLoop(ds, 1, Len(ds), parent, child)

(***************************************************************************)
(* models.py: Synthase.rename_nrps_domains.                                *)
(***************************************************************************)
\* `"PKS" in self.type`, for the synthase types of the model
ContainsPKS(t) == t \in {"PKS", "HR-PKS", "NR-PKS", "PR-PKS"}

\* replace = {"ACP": "T", "TR": "R"}
Replace == {<<"ACP", "T">>, <<"TR", "R">>}

InTable(table, key) == \E p \in table : p[1] = key

Lookup(table, key) == (CHOOSE p \in table : p[1] = key)[2]

\* `for start, domain in enumerate(self.domains): if domain.type == "C": break`:
\* the value `start` has after the loop, given its value before it
RECURSIVE EnumerateUntilC(_, _, _)
EnumerateUntilC(ds, k, start) ==
    IF k > Len(ds) - 1 THEN start
    ELSE IF ds[k + 1].type = "C" THEN k
    ELSE EnumerateUntilC(ds, k + 1, k)

StartIndex(ds, t) == IF t = "Hybrid" THEN EnumerateUntilC(ds, 0, 0) ELSE 0

\* `for domain in self.domains[start:]: if domain.type in replace: ...`
Relabel(ds, start) ==
    [k \in 1..Len(ds) |->
        IF k - 1 >= start /\ InTable(Replace, ds[k].type)
        THEN [ds[k] EXCEPT !.type = Lookup(Replace, ds[k].type)]
        ELSE ds[k]]

\* the start index, the list after the relabelling loop, and the list returned
rename_nrps_domains(ds, t) ==
    IF t = "" \/ ContainsPKS(t)
    THEN [returned |-> TRUE, start |-> 0, relabelled |-> ds, domains |-> ds]
    ELSE LET start == StartIndex(ds, t)
             relabelled == Relabel(ds, start)
         IN [returned |-> FALSE, start |-> start, relabelled |-> relabelled,
             domains |-> rename_parent_domain(relabelled, "C", "E")]

(***************************************************************************)
(* The relabelling specification: a classified Synthase whose hits are     *)
(* sorted by location, as rename_parent_domain requires.                   *)
(***************************************************************************)
NrpsTypes == {"ACP", "TR", "C", "E"}

NrpsHits ==
    {h \in {Domain(t, "f", s, e) : t \in NrpsTypes, s \in 1..MaxCoord, e \in 2..MaxCoord} :
        h.start < h.end}

SynthaseTypes == {"", "PKS", "NRPS", "Hybrid"}

ParentChildPairs == {<<"C", "E">>, <<"ACP", "TR">>}

InitNrps ==
    /\ graph = <<>>
    /\ rules = <<>>
    /\ type \in SynthaseTypes
    /\ domains \in {s \in SeqsUpTo(NrpsHits, MaxLen) : \A k \in 1..(Len(s) - 1) : s[k].start <= s[k + 1].start}
    /\ ret = NoCall

RenameNrpsDomains ==
    LET r == rename_nrps_domains(domains, type)
    IN /\ domains' = r.domains
       /\ ret' = [op |-> "rename_nrps_domains", before |-> domains, returned |-> r.returned,
                  start |-> r.start, relabelled |-> r.relabelled]
       /\ UNCHANGED <<graph, rules, type>>

RenameParentDomain ==
    \E pc \in ParentChildPairs :
        /\ domains' = rename_parent_domain(domains, pc[1], pc[2])
        /\ ret' = [op |-> "rename_parent_domain", before |-> domains,
                   parent |-> pc[1], child |-> pc[2]]
        /\ UNCHANGED <<graph, rules, type>>

NextNrps == RenameNrpsDomains \/ RenameParentDomain

SpecNrps == InitNrps /\ [][NextNrps]_vars

(***************************************************************************)
(* Python strings and eval, as far as Rule.evaluate uses them.             *)
(*                                                                         *)
(* A string is a sequence of atoms: a decimal digit, a blank, a            *)
(* parenthesis, or a whole word ("and", "or", "not", "True", "False").     *)
(* Digits are single atoms because str.replace works on them one by one;   *)
(* adjacent digit and word atoms form one token, as in Python's tokenizer. *)
(***************************************************************************)
Digits == <<"0", "1", "2", "3", "4", "5", "6", "7", "8", "9">>

IsDigit(a) == \E k \in 1..Len(Digits) : Digits[k] = a

DigitValue(a) == (CHOOSE k \in 1..Len(Digits) : Digits[k] = a) - 1

\* str(idx) for a natural number
RECURSIVE StrNat(_)
StrNat(n) ==
    IF n < Len(Digits) THEN <<Digits[n + 1]>>
    ELSE StrNat(n \div Len(Digits)) \o <<Digits[(n % Len(Digits)) + 1]>>

\* str(condition) for a bool
StrBool(b) == IF b THEN <<"True">> ELSE <<"False">>

IsPrefix(p, s) == Len(p) <= Len(s) /\ SubSeq(s, 1, Len(p)) = p

\* str.replace(old, new): every non-overlapping occurrence, left to right
RECURSIVE StrReplace(_, _, _)
StrReplace(s, old, new) ==
    IF s = <<>> THEN <<>>
    ELSE IF IsPrefix(old, s)
         THEN new \o StrReplace(SubSeq(s, Len(old) + 1, Len(s)), old, new)
         ELSE <<Head(s)>> \o StrReplace(Tail(s), old, new)

\* Python values that eval can return here
PyBool(b) == [k |-> "bool", b |-> b, n |-> 0]

PyInt(n) == [k |-> "int", b |-> FALSE, n |-> n]

PyNone == [k |-> "none", b |-> FALSE, n |-> 0]

\* truth value of a Python value, as `if` and `not` take it
Truthy(v) == IF v.k = "bool" THEN v.b ELSE v.n # 0

\* value of a run of digits
RECURSIVE NumberValue(_)
NumberValue(run) ==
    IF run = <<>> THEN 0
    ELSE NumberValue(SubSeq(run, 1, Len(run) - 1)) * Len(Digits) + DigitValue(run[Len(run)])

\* length of the maximal run of digit and word atoms at the head of s
RECURSIVE RunLength(_)
RunLength(s) ==
    IF s = <<>> \/ Head(s) \in {" ", "(", ")"} THEN 0 ELSE 1 + RunLength(Tail(s))

\* the token a run of digit and word atoms makes: a number (a literal with a
\* leading zero is a syntax error unless it is all zeros), a keyword, a name,
\* or no token at all (digits directly followed by a word atom)
RunToken(run) ==
    IF \A k \in 1..Len(run) : IsDigit(run[k])
    THEN IF Len(run) > 1 /\ run[1] = "0" /\ NumberValue(run) # 0
         THEN [k |-> "bad", text |-> run]
         ELSE [k |-> "num", text |-> run]
    ELSE IF IsDigit(run[1]) THEN [k |-> "bad", text |-> run]
    ELSE IF run \in {<<"and">>, <<"or">>, <<"not">>} THEN [k |-> run[1], text |-> run]
    ELSE [k |-> "name", text |-> run]

RECURSIVE Tokenize(_)
RECURSIVE TokenizeRun(_, _)

\* the token made by the first n atoms of s, then the tokens of the rest
TokenizeRun(s, n) == <<RunToken(SubSeq(s, 1, n))>> \o Tokenize(SubSeq(s, n + 1, Len(s)))

Tokenize(s) ==
    IF s = <<>> THEN <<>>
    ELSE IF Head(s) = " " THEN Tokenize(Tail(s))
    ELSE IF Head(s) \in {"(", ")"} THEN <<[k |-> Head(s), text |-> <<Head(s)>>]>> \o Tokenize(Tail(s))
    ELSE TokenizeRun(s, RunLength(s))

\* Python's expression grammar over these tokens:
\*   or_test: and_test ('or' and_test)*     and_test: not_test ('and' not_test)*
\*   not_test: 'not' not_test | atom        atom: NUMBER | NAME | '(' or_test ')'
\* Each parser takes the tokens and a position and returns [ok, ast, pos].
SyntaxFail == [ok |-> FALSE, ast |-> <<>>, pos |-> 0]

TokenKind(toks, pos) == IF pos <= Len(toks) THEN toks[pos].k ELSE "end"

RECURSIVE ParseOr(_, _)
RECURSIVE ParseOrRest(_, _)
RECURSIVE ParseAnd(_, _)
RECURSIVE ParseAndRest(_, _)
RECURSIVE ParseNot(_, _)
RECURSIVE ParseAtom(_, _)

\* e is the parse of what follows a '(': the ')' must come next
CloseParen(toks, e) ==
    IF e.ok /\ TokenKind(toks, e.pos) = ")" THEN [e EXCEPT !.pos = e.pos + 1] ELSE SyntaxFail

ParseAtom(toks, pos) ==
    IF TokenKind(toks, pos) = "num"
    THEN [ok |-> TRUE, ast |-> [k |-> "num", n |-> NumberValue(toks[pos].text)], pos |-> pos + 1]
    ELSE IF TokenKind(toks, pos) = "name"
    THEN [ok |-> TRUE, ast |-> [k |-> "name", text |-> toks[pos].text], pos |-> pos + 1]
    ELSE IF TokenKind(toks, pos) = "(" THEN CloseParen(toks, ParseOr(toks, pos + 1))
    ELSE SyntaxFail

\* e is the parse of the operand of a 'not'
NotOf(e) == IF e.ok THEN [e EXCEPT !.ast = [k |-> "not", e |-> e.ast]] ELSE SyntaxFail

ParseNot(toks, pos) ==
    IF TokenKind(toks, pos) = "not" THEN NotOf(ParseNot(toks, pos + 1))
    ELSE ParseAtom(toks, pos)

\* left is the parse of the operands so far, r that of the operand after op
BinaryOf(op, left, r) ==
    IF r.ok THEN [r EXCEPT !.ast = [k |-> op, l |-> left.ast, r |-> r.ast]] ELSE SyntaxFail

ParseAndRest(toks, left) ==
    IF left.ok /\ TokenKind(toks, left.pos) = "and"
    THEN ParseAndRest(toks, BinaryOf("and", left, ParseNot(toks, left.pos + 1)))
    ELSE left

ParseAnd(toks, pos) == ParseAndRest(toks, ParseNot(toks, pos))

ParseOrRest(toks, left) ==
    IF left.ok /\ TokenKind(toks, left.pos) = "or"
    THEN ParseOrRest(toks, BinaryOf("or", left, ParseAnd(toks, left.pos + 1)))
    ELSE left

ParseOr(toks, pos) == ParseOrRest(toks, ParseAnd(toks, pos))

\* evaluation of a parsed expression: [err, val].  `and` and `or` return one
\* of their operands and do not evaluate the right one when the left decides;
\* the only names bound are True and False.
Value(v) == [err |-> "", val |-> v]

RECURSIVE EvalAst(_)
RECURSIVE EvalNot(_)
RECURSIVE EvalBinary(_, _)

\* e is what evaluating the operand of a 'not' gave
EvalNot(e) == IF e.err # "" THEN e ELSE Value(PyBool(~Truthy(e.val)))

\* l is what evaluating the left operand gave
EvalBinary(ast, l) ==
    IF l.err # "" THEN l
    ELSE IF ast.k = "and" THEN (IF Truthy(l.val) THEN EvalAst(ast.r) ELSE l)
    ELSE (IF Truthy(l.val) THEN l ELSE EvalAst(ast.r))

EvalAst(ast) ==
    IF ast.k = "num" THEN Value(PyInt(ast.n))
    ELSE IF ast.k = "name"
    THEN IF ast.text = <<"True">> THEN Value(PyBool(TRUE))
         ELSE IF ast.text = <<"False">> THEN Value(PyBool(FALSE))
         ELSE [err |-> "NameError", val |-> PyNone]
    ELSE IF ast.k = "not" THEN EvalNot(EvalAst(ast.e))
    ELSE EvalBinary(ast, EvalAst(ast.l))

\* eval(string): a SyntaxError when the string is no expression (compiling
\* comes first), else the expression's value or the error raised evaluating it
EvalParsed(toks, e) ==
    IF e.ok /\ e.pos = Len(toks) + 1 THEN EvalAst(e.ast)
    ELSE [err |-> "SyntaxError", val |-> PyNone]

EvalTokens(toks) == EvalParsed(toks, ParseOr(toks, 1))

PyEval(s) == EvalTokens(Tokenize(s))

(***************************************************************************)
(* classify.py: Rule.  A Rule is a record [name, rename, domains, filters, *)
(* evaluator]: rename is a set of pairs <<type, new type>>, filters a set  *)
(* of pairs <<type, set of families>>, evaluator a string.                 *)
(***************************************************************************)
Rule(name, rename, ds, filters, evaluator) ==
    [name |-> name, rename |-> rename, domains |-> ds, filters |-> filters,
     evaluator |-> evaluator]

\* the substitution loop without `reversed`: lowest index first
RECURSIVE SubstituteAscending(_, _, _)
SubstituteAscending(evaluator, conditions, idx) ==
    IF idx = 0 THEN evaluator
    ELSE SubstituteAscending(
             StrReplace(evaluator, StrNat(Len(conditions) - idx),
                        StrBool(conditions[Len(conditions) - idx + 1])),
             conditions, idx - 1)

\* the `for idx, condition in reversed(list(enumerate(conditions)))` loop:
\* idx is the number of conditions still to substitute, highest index first
RECURSIVE Substitute(_, _, _)
Substitute(evaluator, conditions, idx) ==
    IF idx = 0 THEN evaluator
    ELSE Substitute(StrReplace(evaluator, StrNat(idx - 1), StrBool(conditions[idx])),
                    conditions, idx - 1)

\* Rule.evaluate
evaluate(rule, conditions) == PyEval(Substitute(rule.evaluator, conditions, Len(conditions)))

\* Rule.valid_family
valid_family(rule, domain) ==
    IF InTable(rule.filters, domain.type)
    THEN domain.domain \in Lookup(rule.filters, domain.type)
    ELSE TRUE

\* `domain in seen`: list membership by Domain.__eq__, equality of all four fields
InSeen(seen, domain) ==
    \E m \in 1..Len(seen) :
        /\ seen[m].type = domain.type
        /\ seen[m].domain = domain.domain
        /\ seen[m].start = domain.start
        /\ seen[m].end = domain.end

\* A matched hit is recorded by an append to `seen`; the caller's list is
\* left as it is.
\* The variant that consumes the hit by taking it out of the caller's list:
ConsumeByRemoval(st, k) == [st EXCEPT !.domains = Pop(st.domains, k - 1)]

\* `seen.append(domain)` for the hit at position k of the list
Consume(st, k) == [st EXCEPT !.seen = Append(st.seen, st.domains[k])]

\* the `for domain in domains` loop for one required type, from position k:
\* the state it leaves and whether it matched
RECURSIVE ScanHits(_, _, _, _)
ScanHits(rule, rule_domain, st, k) ==
    IF k > Len(st.domains) THEN [st |-> st, match |-> FALSE]
    ELSE LET domain == st.domains[k]
         IN IF InSeen(st.seen, domain) THEN ScanHits(rule, rule_domain, st, k + 1)
            ELSE IF domain.type = rule_domain /\ valid_family(rule, domain)
            THEN [st |-> Consume(st, k), match |-> TRUE]
            ELSE ScanHits(rule, rule_domain, st, k + 1)

\* `conditions.append(match)` after the scan m for one required type
RecordMatch(m) == [m.st EXCEPT !.conditions = Append(m.st.conditions, m.match)]

\* the `for rule_domain in self.domains` loop, from required type number r
RECURSIVE MatchRequirements(_, _, _)
MatchRequirements(rule, st, r) ==
    IF r > Len(rule.domains) THEN st
    ELSE MatchRequirements(rule, RecordMatch(ScanHits(rule, rule.domains[r], st, 1)), r + 1)

\* `return self.evaluate(conditions)`: e is what evaluate returned or raised
Returning(st, e) ==
    [conditions |-> st.conditions, err |-> e.err, val |-> e.val, domains |-> st.domains]

EvaluateMatched(rule, st) == Returning(st, evaluate(rule, st.conditions))

\* Rule.satisfied_by: the conditions, what evaluate returns or raises, and
\* the caller's list after the call
satisfied_by(rule, ds) ==
    EvaluateMatched(rule, MatchRequirements(rule, [domains |-> ds, seen |-> <<>>, conditions |-> <<>>], 1))

\* Rule.rename_domains, from the hit at position k: `self.rename[domain]`
\* looks the Domain object itself up in the dict, and Domain, which defines
\* __eq__ and no __hash__, is unhashable, so the lookup raises TypeError
\* before anything is assigned
RECURSIVE RenameLoop(_, _, _)
RenameLoop(rule, ds, k) ==
    IF k > Len(ds) THEN [err |-> "", domains |-> ds]
    ELSE IF InTable(rule.rename, ds[k].type) THEN [err |-> "TypeError", domains |-> ds]
    ELSE RenameLoop(rule, ds, k + 1)

rename_domains(rule, ds) ==
    IF rule.rename = {} THEN [err |-> "", domains |-> ds] ELSE RenameLoop(rule, ds, 1)

(***************************************************************************)
(* classify.py: traverse_graph.  A rule graph value is a str (a rule       *)
(* name), a list of values, or a dict, kept as the sequence of its         *)
(* (key, value) items in insertion order.  `rules` is a function from rule *)
(* names to Rules.  The result is [err, classifiers, domains]: the         *)
(* exception raised ("" for none), the list returned, and the hit list     *)
(* after the call.                                                         *)
(***************************************************************************)
Str(name) == [k |-> "str", name |-> name, sub |-> <<>>]

List(nodes) == [k |-> "list", name |-> "", sub |-> nodes]

Dict(items) == [k |-> "dict", name |-> "", sub |-> items]

Item(key, children) == [key |-> key, children |-> children]

Raise(err, ds) == [err |-> err, classifiers |-> <<>>, domains |-> ds]

\* `rules[node].rename_domains(domains)` done: ren is what it did
AfterRename(ren) == [err |-> ren.err, hit |-> TRUE, domains |-> ren.domains]

\* `if rules[node].satisfied_by(domains):`, sat being what satisfied_by did
AfterSatisfiedBy(rule, sat) ==
    IF sat.err # "" THEN [err |-> sat.err, hit |-> FALSE, domains |-> sat.domains]
    ELSE IF ~Truthy(sat.val) THEN [err |-> "", hit |-> FALSE, domains |-> sat.domains]
    ELSE AfterRename(rename_domains(rule, sat.domains))

\* TestNode with `rules.get(node)` semantics: a name without a Rule counts
\* as unsatisfied instead of raising KeyError
TestNodeSkipsMissing(rs, node, ds) ==
    IF node \notin DOMAIN rs THEN [err |-> "", hit |-> FALSE, domains |-> ds]
    ELSE AfterSatisfiedBy(rs[node], satisfied_by(rs[node], ds))

\* `if rules[node].satisfied_by(domains): rules[node].rename_domains(domains)`:
\* [err, hit, domains]
TestNode(rs, node, ds) ==
    IF node \notin DOMAIN rs THEN [err |-> "KeyError", hit |-> FALSE, domains |-> ds]
    ELSE AfterSatisfiedBy(rs[node], satisfied_by(rs[node], ds))

RECURSIVE traverse_graph(_, _, _, _)
RECURSIVE ListLoop(_, _, _, _, _)
RECURSIVE ListAfterDict(_, _, _, _)
RECURSIVE ListAfterTest(_, _, _, _, _)
RECURSIVE DictLoop(_, _, _, _, _)
RECURSIVE DictAfterTest(_, _, _, _, _)

\* `classifiers = traverse_graph(node, ...); if classifiers: break`, r being
\* what the recursive call did
ListAfterDict(nodes, k, rs, r) ==
    IF r.err # "" \/ r.classifiers # <<>> THEN r
    ELSE ListLoop(nodes, k + 1, rs, r.domains, r.classifiers)

\* the leaf branch, t being what the test of nodes[k] did
ListAfterTest(nodes, k, rs, classifiers, t) ==
    IF t.err # "" THEN Raise(t.err, t.domains)
    ELSE IF t.hit
    THEN [err |-> "", classifiers |-> Append(classifiers, nodes[k].name), domains |-> t.domains]
    ELSE ListLoop(nodes, k + 1, rs, t.domains, classifiers)

\* `for node in graph`, from the node at position k
ListLoop(nodes, k, rs, ds, classifiers) ==
    IF k > Len(nodes) THEN [err |-> "", classifiers |-> classifiers, domains |-> ds]
    ELSE IF nodes[k].k = "dict"
    THEN ListAfterDict(nodes, k, rs, traverse_graph(nodes[k], rs, ds, classifiers))
    ELSE IF nodes[k].k # "str" THEN Raise("TypeError", ds)
    ELSE ListAfterTest(nodes, k, rs, classifiers, TestNode(rs, nodes[k].name, ds))

\* the body of the dict loop, t being what the test of items[k].key did
DictAfterTest(items, k, rs, classifiers, t) ==
    IF t.err # "" THEN Raise(t.err, t.domains)
    ELSE IF t.hit
    THEN traverse_graph(items[k].children, rs, t.domains, Append(classifiers, items[k].key))
    ELSE DictLoop(items, k + 1, rs, t.domains, classifiers)

\* `for node, children in graph.items()`, from the item at position k
DictLoop(items, k, rs, ds, classifiers) ==
    IF k > Len(items) THEN [err |-> "", classifiers |-> classifiers, domains |-> ds]
    ELSE DictAfterTest(items, k, rs, classifiers, TestNode(rs, items[k].key, ds))

traverse_graph(g, rs, ds, classifiers) ==
    IF g.k = "list" THEN ListLoop(g.sub, 1, rs, ds, classifiers)
    ELSE IF g.k = "dict" THEN DictLoop(g.sub, 1, rs, ds, classifiers)
    ELSE Raise("AttributeError", ds)

(***************************************************************************)
(* RuleGraph.classify and the calls on single rules, as actions.           *)
(***************************************************************************)
\* RuleGraph.classify(domains)
Classify ==
    LET r == traverse_graph(graph, rules, domains, <<>>)
    IN /\ domains' = r.domains
       /\ ret' = [op |-> "classify", before |-> domains, err |-> r.err,
                  classifiers |-> r.classifiers]
       /\ UNCHANGED <<graph, rules, type>>

\* rules[name].satisfied_by(domains)
SatisfiedBy ==
    \E name \in DOMAIN rules :
        LET r == satisfied_by(rules[name], domains)
        IN /\ domains' = r.domains
           /\ ret' = [op |-> "satisfied_by", rule |-> name, before |-> domains,
                      conditions |-> r.conditions, err |-> r.err, val |-> r.val]
           /\ UNCHANGED <<graph, rules, type>>

\* rules[name].rename_domains(domains)
RenameDomains ==
    \E name \in DOMAIN rules :
        LET r == rename_domains(rules[name], domains)
        IN /\ domains' = r.domains
           /\ ret' = [op |-> "rename_domains", rule |-> name, before |-> domains, err |-> r.err]
           /\ UNCHANGED <<graph, rules, type>>

\* the condition vectors of length n: every value at the first two positions and
\* at the last one, one shared value at the positions between them (every
\* vector when n <= 4)
ConditionVectors(n) ==
    {[m \in 1..n |-> IF m <= 2 THEN low[m] ELSE IF m = n THEN top ELSE mid] :
         low \in [1..2 -> BOOLEAN], mid \in BOOLEAN, top \in BOOLEAN}

\* rules[name].evaluate(conditions), for a vector as long as the rule's domains
Evaluate ==
    \E name \in DOMAIN rules :
        \E conditions \in ConditionVectors(Len(rules[name].domains)) :
            LET r == evaluate(rules[name], conditions)
            IN /\ ret' = [op |-> "evaluate", rule |-> name, conditions |-> conditions,
                          err |-> r.err, val |-> r.val]
               /\ UNCHANGED <<graph, rules, domains, type>>

(***************************************************************************)
(* The rule specification: one rule "R" in the graph ["R"], generated from *)
(* required types, a family filter, a rename map and an evaluator over the *)
(* placeholders 0..N, of which N is the first one out of range.            *)
(***************************************************************************)
RuleTypes == {"KS", "AT"}

\* the placeholder i and the expressions `not i`, `i and j`, `i or j` (i # j)
Evaluators(n) ==
    {StrNat(i) : i \in 0..n}
    \cup {<<"not", " ">> \o StrNat(i) : i \in 0..n}
    \cup {StrNat(p[1]) \o <<" ", op, " ">> \o StrNat(p[2]) :
              op \in {"and", "or"}, p \in {q \in (0..n) \X (0..n) : q[1] # q[2]}}

GeneratedRules ==
    UNION {{Rule("R", rename, ds, filters, evaluator) :
                rename \in {{}, {<<"KS", "PKS_KS">>}},
                filters \in {{}, {<<"KS", {"f1"}>>}},
                evaluator \in Evaluators(Len(ds))} :
           ds \in SeqsUpTo(RuleTypes, MaxReq)}

\* two KS hits of family f1 at different places, one of family f2, an AT hit
RuleHits ==
    {Domain("KS", "f1", 1, MaxCoord), Domain("KS", "f1", 2, MaxCoord),
     Domain("KS", "f2", 1, MaxCoord), Domain("AT", "f1", 1, MaxCoord)}

InitRule ==
    /\ graph = List(<<Str("R")>>)
    /\ rules \in [{"R"} -> GeneratedRules]
    /\ type = ""
    /\ domains \in SeqsUpTo(RuleHits, MaxHits)
    /\ ret = NoCall

NextRule == Classify \/ SatisfiedBy \/ RenameDomains \/ Evaluate

SpecRule == InitRule /\ [][NextRule]_vars

(***************************************************************************)
(* The evaluation specification: Rule.evaluate on rules with enough        *)
(* required labels for two-digit placeholders.  A rule has n required      *)
(* labels, n = MaxReq + 1 or n = MaxIndex + 1, and an evaluator built      *)
(* from the placeholders 0, 1 and n - 1, all of them in range.             *)
(***************************************************************************)
\* the evaluator shapes: one, two or three placeholders joined by not, and, or
\* and parentheses
FormulaShapes ==
    {"i", "not i", "i and j", "i or j", "not i and j", "not i or j", "not (i or j)",
     "i or j and k", "i and j or k", "(i or j) and k"}

\* the placeholders an evaluator of a rule with n required labels is built from
FormulaIndices(n) == {0, 1, n - 1}

\* a formula: a shape and the placeholders in it, different from each other
Formulas(n) ==
    {f \in [shape : FormulaShapes, i : FormulaIndices(n), j : FormulaIndices(n),
            k : FormulaIndices(n)] :
        CASE f.shape \in {"i", "not i"} -> f.j = f.i /\ f.k = f.i
          [] f.shape \in {"i or j and k", "i and j or k", "(i or j) and k"} ->
                 f.i # f.j /\ f.j # f.k /\ f.i # f.k
          [] OTHER -> f.i # f.j /\ f.k = f.i}

\* the evaluator string of a formula, as a rule file writes it
Text(f) ==
    LET i == StrNat(f.i)
        j == StrNat(f.j)
        k == StrNat(f.k)
    IN CASE f.shape = "i" -> i
         [] f.shape = "not i" -> <<"not", " ">> \o i
         [] f.shape = "i and j" -> i \o <<" ", "and", " ">> \o j
         [] f.shape = "i or j" -> i \o <<" ", "or", " ">> \o j
         [] f.shape = "not i and j" -> <<"not", " ">> \o i \o <<" ", "and", " ">> \o j
         [] f.shape = "not i or j" -> <<"not", " ">> \o i \o <<" ", "or", " ">> \o j
         [] f.shape = "not (i or j)" ->
                <<"not", " ", "(">> \o i \o <<" ", "or", " ">> \o j \o <<")">>
         [] f.shape = "i or j and k" ->
                i \o <<" ", "or", " ">> \o j \o <<" ", "and", " ">> \o k
         [] f.shape = "i and j or k" ->
                i \o <<" ", "and", " ">> \o j \o <<" ", "or", " ">> \o k
         [] f.shape = "(i or j) and k" ->
                <<"(">> \o i \o <<" ", "or", " ">> \o j \o <<")", " ", "and", " ">> \o k

\* the sizes of the rules: one more than the rule specification reaches, and
\* the first with a two-digit placeholder
WideSizes == {MaxReq + 1, MaxIndex + 1}

WideRules ==
    UNION {{Rule("R", {}, [m \in 1..n |-> "KS"], {}, Text(f)) : f \in Formulas(n)} :
           n \in WideSizes}

InitEvaluate ==
    /\ graph = List(<<Str("R")>>)
    /\ rules \in [{"R"} -> WideRules]
    /\ type = ""
    /\ domains = <<>>
    /\ ret = NoCall

NextEvaluate == Evaluate \/ SatisfiedBy

SpecEvaluate == InitEvaluate /\ [][NextEvaluate]_vars

(***************************************************************************)
(* The classification specification: every rule graph of at most MaxNodes  *)
(* entries, named in depth-first order, each name either without a Rule or *)
(* with one of two Rules.                                                  *)
(***************************************************************************)
NodeNames == <<"r1", "r2", "r3", "r4", "r5", "r6">>

\* the lists of n entries in all, named NodeNames[first] onwards
RECURSIVE Forests(_, _)
Forests(n, first) ==
    IF n = 0 THEN {<<>>}
    ELSE {<<Str(NodeNames[first])>> \o rest : rest \in Forests(n - 1, first + 1)}
         \cup UNION {{<<Dict(<<Item(NodeNames[first], List(children))>>)>> \o rest :
                          children \in Forests(m, first + 1),
                          rest \in Forests(n - 1 - m, first + 1 + m)} :
                     m \in 0..(n - 1)}

\* a rule that needs a KS hit, and one that needs an AT hit and renames KS hits
RuleOfKind(name, kind) ==
    IF kind = "KS" THEN Rule(name, {}, <<"KS">>, {}, <<"0">>)
    ELSE Rule(name, {<<"KS", "PKS_KS">>}, <<"AT">>, {}, <<"0">>)

RuleKinds == {"KS", "AT-renames-KS"}

ClassifyHits ==
    {<<>>, <<Domain("KS", "f1", 1, MaxCoord)>>, <<Domain("AT", "f1", 2, MaxCoord)>>,
     <<Domain("KS", "f1", 1, MaxCoord), Domain("AT", "f1", 2, MaxCoord)>>}

InitClassify ==
    /\ \E n \in 0..MaxNodes :
          /\ graph \in {List(f) : f \in Forests(n, 1)}
          /\ \E S \in SUBSET {NodeNames[m] : m \in 1..n} :
                \E kinds \in [S -> RuleKinds] :
                    rules = [name \in S |-> RuleOfKind(name, kinds[name])]
    /\ type = ""
    /\ domains \in ClassifyHits
    /\ ret = NoCall

NextClassify == Classify \/ SatisfiedBy

SpecClassify == InitClassify /\ [][NextClassify]_vars

(***************************************************************************)
(* Properties of the interval-filtering specification.                     *)
(***************************************************************************)
Count(s, x) == Cardinality({k \in 1..Len(s) : s[k] = x})

SamePopulation(s, t) ==
    /\ Len(s) = Len(t)
    /\ \A k \in 1..Len(s) : Count(s, s[k]) = Count(t, s[k])

StartAscending(s) == \A k \in 1..(Len(s) - 1) : s[k].start <= s[k + 1].start

RECURSIVE SumLen(_)
SumLen(ss) == IF ss = <<>> THEN 0 ELSE Len(Head(ss)) + SumLen(Tail(ss))

TypesOf(s) == {s[k].type : k \in 1..Len(s)}

\* C4: the groups yielded by group_overlapping_hits partition the start-sorted
\* input: every group is non-empty, the sizes sum to the input length, the
\* concatenation of the groups in yield order is the sorted list (each hit once),
\* and every member of a group after the first overlaps the group's first member
\* under hits_overlap at the call's threshold.
C4_GroupsPartitionSortedInput ==
    ret.op = "group_overlapping_hits" =>
        /\ StartAscending(domains)
        /\ SamePopulation(domains, ret.before)
        /\ \A k \in 1..Len(ret.groups) : ret.groups[k] # <<>>
        /\ SumLen(ret.groups) = Len(ret.before)
        /\ Flatten(ret.groups) = domains
        /\ \A k \in 1..Len(ret.groups) : \A m \in 2..Len(ret.groups[k]) :
              hits_overlap(ret.groups[k][1], ret.groups[k][m], ret.threshold)

\* C4 witness: a call at the default threshold on an unsorted list that yields
\* a group of two hits followed by another group
C4_Witness ==
    /\ ret.op = "group_overlapping_hits"
    /\ ret.threshold = DefaultThreshold
    /\ ~StartAscending(ret.before)
    /\ Len(ret.groups) = 2
    /\ Len(ret.groups[1]) = 2

\* C10 (as claimed): after filter_same_type_domains the hits are sorted by start,
\* every type of the input is still present, and no two remaining hits of the
\* same type overlap under hits_overlap at the default threshold.
C10_NoSameTypeOverlapLeft ==
    ret.op = "filter_same_type_domains" =>
        /\ StartAscending(domains)
        /\ TypesOf(ret.before) \subseteq TypesOf(domains)
        /\ \A i \in 1..Len(domains) : \A j \in 1..Len(domains) :
              (i # j /\ domains[i].type = domains[j].type)
                  => ~hits_overlap(domains[i], domains[j], DefaultThreshold)

\* two intervals that share no coordinate range
Disjoint(a, b) == a.end < b.start \/ b.end < a.start

\* C12 (as claimed): at the default threshold hits_overlap is false for every
\* two hits that share no coordinate range, degenerate hits (start = end)
\* included; so after group_overlapping_hits at the default threshold no two
\* hits of the list that share no range overlap, and no group holds a hit that
\* shares no range with the group's first hit.
C12_DisjointHitsNeverOverlap ==
    (ret.op = "group_overlapping_hits" /\ ret.threshold = DefaultThreshold) =>
        /\ \A i \in 1..Len(domains) : \A j \in 1..Len(domains) :
              Disjoint(domains[i], domains[j])
                  => ~hits_overlap(domains[i], domains[j], DefaultThreshold)
        /\ \A g \in 1..Len(ret.groups) : \A m \in 2..Len(ret.groups[g]) :
              ~Disjoint(ret.groups[g][1], ret.groups[g][m])

(***************************************************************************)
(* Properties of the relabelling specification.                            *)
(***************************************************************************)
\* 1-based position of the first hit of type "C", Len + 1 when there is none
FirstC(ds) ==
    IF \E k \in 1..Len(ds) : ds[k].type = "C"
    THEN CHOOSE k \in 1..Len(ds) : ds[k].type = "C" /\ \A m \in 1..(k - 1) : ds[m].type # "C"
    ELSE Len(ds) + 1

\* C8 (as claimed): on a "Hybrid" subject the relabel table is applied exactly
\* to the hits from the first hit labelled "C" to the end; hits before it keep
\* their labels, and with no hit labelled "C" the start index is the list
\* length and no hit is relabelled.
C8_HybridRelabelsFromFirstC ==
    (ret.op = "rename_nrps_domains" /\ type = "Hybrid") =>
        /\ ret.start = FirstC(ret.before) - 1
        /\ \A k \in 1..Len(ret.before) :
              ret.relabelled[k] =
                  IF k >= FirstC(ret.before) /\ InTable(Replace, ret.before[k].type)
                  THEN [ret.before[k] EXCEPT !.type = Lookup(Replace, ret.before[k].type)]
                  ELSE ret.before[k]

\* C9 (as claimed): after rename_parent_domain(domains, parent, child) no
\* adjacent pair of the list has the labels (parent, child) and overlaps under
\* hits_overlap at the default threshold.
C9_NoParentChildPairLeft ==
    ret.op = "rename_parent_domain" =>
        \A i \in 1..(Len(domains) - 1) :
            ~(/\ domains[i].type = ret.parent
              /\ domains[i + 1].type = ret.child
              /\ hits_overlap(domains[i], domains[i + 1], DefaultThreshold))

(***************************************************************************)
(* Properties of the rule specification.                                   *)
(***************************************************************************)
\* the hit with its type replaced as the rename map says, if it has a key for it
Renamed(rename, d) ==
    IF InTable(rename, d.type) THEN [d EXCEPT !.type = Lookup(rename, d.type)] ELSE d

\* C2 (as claimed): Rule.rename_domains with a non-empty rename map completes
\* normally, and afterwards every hit whose type was a key of the map has the
\* mapped type, while every other hit's type and every hit's family, start and
\* end are unchanged.
C2_RenameAppliesMap ==
    (ret.op = "rename_domains" /\ rules[ret.rule].rename # {}) =>
        /\ ret.err = ""
        /\ Len(domains) = Len(ret.before)
        /\ \A k \in 1..Len(ret.before) :
              domains[k] = Renamed(rules[ret.rule].rename, ret.before[k])

\* hits of type t that the rule's filters accept, counted by position
Acceptable(rule, ds, t) ==
    Cardinality({i \in 1..Len(ds) : ds[i].type = t /\ valid_family(rule, ds[i])})

\* requirements before position k that demand type t
DemandedBefore(rule, k, t) == Cardinality({j \in 1..(k - 1) : rule.domains[j] = t})

\* C3 (as claimed): in Rule.satisfied_by the requirement at position k, of type
\* t, is marked matched if and only if the hits of type t with an acceptable
\* family, counted by position (equal hits count separately), outnumber the
\* requirements before k that demand t.
C3_MatchedIffEnoughHits ==
    ret.op = "satisfied_by" =>
        /\ Len(ret.conditions) = Len(rules[ret.rule].domains)
        /\ \A k \in 1..Len(ret.conditions) :
              ret.conditions[k] <=>
                  (Acceptable(rules[ret.rule], ret.before, rules[ret.rule].domains[k])
                       > DemandedBefore(rules[ret.rule], k, rules[ret.rule].domains[k]))

\* the placeholder indices an evaluator references: its integer literals
ReferencedIndices(evaluator) ==
    {NumberValue(Tokenize(evaluator)[k].text) :
        k \in {m \in 1..Len(Tokenize(evaluator)) : Tokenize(evaluator)[m].k = "num"}}

\* C6 (as claimed): evaluating a rule whose evaluator references a placeholder
\* index that is not below N, the number of the rule's required types, ends in
\* an error for every boolean vector of length N; no value is returned.
C6_OutOfRangeIndexRaises ==
    (/\ ret.op = "evaluate"
     /\ \E i \in ReferencedIndices(rules[ret.rule].evaluator) : i >= Len(rules[ret.rule].domains))
        => ret.err # ""

(***************************************************************************)
(* Properties of the classification specification.                         *)
(***************************************************************************)
\* the rule name of an entry of a list: the leaf's name or the subtree's key
EntryName(node) == IF node.k = "str" THEN node.name ELSE node.sub[1].key

\* the entries of a subtree entry's child list
Children(node) == node.sub[1].children.sub

\* every rule name a list of entries references, at any depth
RECURSIVE NamesIn(_)
NamesIn(nodes) ==
    IF nodes = <<>> THEN {}
    ELSE {EntryName(Head(nodes))}
         \cup (IF Head(nodes).k = "dict" THEN NamesIn(Children(Head(nodes))) ELSE {})
         \cup NamesIn(Tail(nodes))

\* the rule of this name exists and its evaluator returns a true value
Satisfied(name, ds) ==
    /\ name \in DOMAIN rules
    /\ satisfied_by(rules[name], ds).err = ""
    /\ Truthy(satisfied_by(rules[name], ds).val)

\* the rule of this name exists and its evaluator returns a false value
Unsatisfied(name, ds) ==
    /\ name \in DOMAIN rules
    /\ satisfied_by(rules[name], ds).err = ""
    /\ ~Truthy(satisfied_by(rules[name], ds).val)

NoRenameMaps == \A name \in DOMAIN rules : rules[name].rename = {}

\* first-match-wins: the first entry in declaration order whose rule is
\* satisfied, followed by the same over its children if it is a subtree
RECURSIVE FirstMatchPath(_, _)
FirstMatchPath(nodes, ds) ==
    IF nodes = <<>> THEN <<>>
    ELSE IF Satisfied(EntryName(Head(nodes)), ds)
    THEN <<EntryName(Head(nodes))>>
         \o (IF Head(nodes).k = "dict" THEN FirstMatchPath(Children(Head(nodes)), ds) ELSE <<>>)
    ELSE FirstMatchPath(Tail(nodes), ds)

\* C1 (as claimed): at every nesting level the entry selected is the first
\* entry in declaration order whose rule is satisfied, leaf or subtree; its name
\* is appended (then the result of its children), no other sibling's name is,
\* and nothing is appended at a level where no entry is satisfied.  Stated for
\* traversals that return, of rule graphs whose names all have rules, so that
\* no lookup or rename error interferes.
C1_FirstSatisfiedEntryAtEveryLevel ==
    (ret.op = "classify" /\ ret.err = "" /\ NamesIn(graph.sub) \subseteq DOMAIN rules) =>
        ret.classifiers = FirstMatchPath(graph.sub, ret.before)

\* C5: Rule.satisfied_by leaves the hit list as it was (the same hits in the
\* same order, every field unchanged), and so does a traversal in which no
\* satisfied rule has a rename map.
C5_SatisfiedByLeavesHits ==
    /\ ret.op = "satisfied_by" => domains = ret.before
    /\ (/\ ret.op = "classify"
        /\ \A name \in DOMAIN rules : Satisfied(name, ret.before) => rules[name].rename = {})
           => domains = ret.before

\* C5 witness: a traversal over a non-empty hit list that selected a subtree
\* and a child of it, none of the satisfied rules having a rename map, while
\* another rule of the graph has one
C5_Witness ==
    /\ ret.op = "classify"
    /\ ret.err = ""
    /\ Len(ret.classifiers) = 2
    /\ ret.before # <<>>
    /\ \A name \in DOMAIN rules : Satisfied(name, ret.before) => rules[name].rename = {}
    /\ \E name \in DOMAIN rules : rules[name].rename # {}

\* position of the first top-level entry that is not unsatisfied (its rule is
\* missing, is satisfied, or raises), 0 when every top-level entry is unsatisfied
FirstDecisive(nodes, ds) ==
    IF \A k \in 1..Len(nodes) : Unsatisfied(EntryName(nodes[k]), ds) THEN 0
    ELSE CHOOSE k \in 1..Len(nodes) :
             /\ ~Unsatisfied(EntryName(nodes[k]), ds)
             /\ \A m \in 1..(k - 1) : Unsatisfied(EntryName(nodes[m]), ds)

\* the rule of this name is satisfied and its rename_domains call returns
Selected(name, ds) == Satisfied(name, ds) /\ rename_domains(rules[name], ds).err = ""

Holds(f, v) ==
    LET i == v[f.i + 1]
        j == v[f.j + 1]
        k == v[f.k + 1]
    IN CASE f.shape = "i" -> i
         [] f.shape = "not i" -> ~i
         [] f.shape = "i and j" -> i /\ j
         [] f.shape = "i or j" -> i \/ j
         [] f.shape = "not i and j" -> (~i) /\ j
         [] f.shape = "not i or j" -> (~i) \/ j
         [] f.shape = "not (i or j)" -> ~(i \/ j)
         [] f.shape = "i or j and k" -> i \/ (j /\ k)
         [] f.shape = "i and j or k" -> (i /\ j) \/ k
         [] f.shape = "(i or j) and k" -> (i \/ j) /\ k

\* C11: for a rule with N required labels, N above 10 included, whose evaluator
\* references only placeholders below N, Rule.evaluate on a vector of N
\* booleans returns, without error, the truth value of the formula with
\* vector[i] assigned to placeholder i, not binding tighter than and, and
\* tighter than or; substituting from the highest index down never replaces
\* part of a larger index.
C11_EvaluateIsTheFormula ==
    ret.op = "evaluate" =>
        \A f \in Formulas(Len(rules[ret.rule].domains)) :
            Text(f) = rules[ret.rule].evaluator
                => (ret.err = "" /\ ret.val = PyBool(Holds(f, ret.conditions)))

\* a rule with a two-digit placeholder next to placeholder 1, evaluated on a
\* vector that gives the two placeholders different values
C11_Witness ==
    /\ ret.op = "evaluate"
    /\ Len(ret.conditions) > 10
    /\ \E f \in Formulas(Len(ret.conditions)) :
          /\ Text(f) = rules[ret.rule].evaluator
          /\ f.shape = "i or j and k"
          /\ f.j = 1
          /\ f.k = Len(ret.conditions) - 1
          /\ ret.conditions[f.j + 1] # ret.conditions[f.k + 1]
          /\ ret.val = PyBool(Holds(f, ret.conditions))


====
